---- MODULE Spec2Model ----
(***************************************************************************)
(* Model of src/xero/lru_cache.py (LRUCache over a doubly linked list of   *)
(* Node objects), of the two limiters of src/xero/ratelimiter.py, of the   *)
(* SlidingWindowCounterRateLimiter of src/xero/ratelimiter_retest.py, of   *)
(* src/concurrent_streams.py and of src/xero2/route.py.                    *)
(*                                                                         *)
(* The Node objects live in a heap addressed by small integers.  The two   *)
(* sentinels and the dict _cache are CLASS attributes of LRUCache          *)
(* (lru_cache.py:17-19), so there is one of each for the whole program,    *)
(* whatever the number of LRUCache instances; only _capacity is an         *)
(* instance attribute (lru_cache.py:22).                                   *)
(*                                                                         *)
(* An exception that leaves get or put is not caught anywhere in the       *)
(* repository: it ends the run, and the state it leaves is recorded.       *)
(*                                                                         *)
(* The limiters read time.time(); the model gives each read a timestamp    *)
(* from a non-decreasing integer clock.  The estimate of the counter       *)
(* limiter is a quotient by window_size: the model compares and rounds it  *)
(* exactly, with both sides multiplied by window_size.                     *)
(***************************************************************************)
EXTENDS Integers, Sequences, FiniteSets

\* ------------------------------------------------------------- bounds
\* Node objects a run may create (put of an absent key creates one)
MaxNodes == 4
\* capacities an LRUCache is constructed with: 1..MaxCap
MaxCap == 2
\* max_requests a limiter is constructed with: 1..MaxRequests
MaxRequests == 2
\* is_allowed calls in a run
MaxCalls == 5
MaxTime == 12
MaxStreamTime == 3    \* 100000 in concurrent_streams.py
MaxStreams == 3

\* ---------------------------------------------------------- constants
\* None, as the value of a prev/next reference or of a _cache lookup
Nil == 0
\* the object bound to LRUCache._leftNode ("Last recent used")
LeftNode == 1
\* the object bound to LRUCache._rightNode ("Just recent used")
RightNode == 2
\* the value get returns for an absent key
MISS == -1
\* the value of a call that returns None (put) or that raised
None == -2

\* The keys the calls use: those of the usage script up to put(3, 3).
Keys == {1, 2, 3}
\* The values a key is put with: two per key, and no two keys share one, so
\* that an overwrite and a value read from another key's node both show.
ValuesFor(k) == {k, 10 * k}
NodeIds == 1..(MaxNodes + 2)
Insts == {1, 2}
\* window_size of a limiter: the default, a small one, and one of 1000
WindowSizes == {1, 3, 1000}
\* Window sizes of the counter limiter: powers of two, so that every
\* quotient by window_size is exact in Python's floats as it is here.
CounterWindows == {1, 4}
\* How far the clock moves between two calls, for a window of w.
Steps(w) == {0, 1, w - 1, w, w + 1}

VARIABLES
  node_prev,    \* Node.prev of every Node object
  node_next,    \* Node.next
  node_key,     \* Node.key
  node_value,   \* Node.value
  allocated,    \* number of Node(key, value) objects created by put
  _cache,       \* LRUCache._cache: key -> Node (Nil: key absent)
  _capacity,    \* LRUCache._capacity of each instance (0: not constructed)
  last,         \* the last call: its instance, arguments, result, exception
  scenario,     \* number of calls of the usage script made so far (-1: the
                \* run left the script; Len(Script) + 1: the script, then
                \* exactly one more call)
  max_requests, \* LeakyBucketRateLimiter.max_requests
  window_size,  \* LeakyBucketRateLimiter.window_size
  requests,     \* LeakyBucketRateLimiter.requests (the deque, left to right)
  clock,        \* what time.time() returned last
  calls,        \* every is_allowed call so far: its timestamp and result
  current_window_start,     \* SlidingWindowCounterRateLimiter (ratelimiter.py)
  current_window_requests,
  last_window_requests,
  retest,       \* the same three attributes of the SlidingWindowCounterRateLimiter
                \* of ratelimiter_retest.py
  unprobed,     \* the same three attributes of a second limiter of
                \* ratelimiter.py that gets the is_allowed calls only
  ccall,        \* the last call on the counter limiter(s) and what it returned
  burst,        \* is_allowed calls, and admitted ones, since the last reset
                \* of both counters, while its window lasts
  thread,       \* per thread: where it is in the method it runs, its locals
  streams,      \* the argument of max_concurrent_streams
  result,       \* what max_concurrent_streams returned
  routes,       \* Router.routes
  set_by,       \* per Router instance: the routes set through it
  rcall         \* the last call on a Router and how it ended

lruVars == <<node_prev, node_next, node_key, node_value, allocated, _cache,
             _capacity, last, scenario>>
limVars == <<max_requests, window_size, requests, clock, calls>>
cntVars == <<current_window_start, current_window_requests,
             last_window_requests, retest, unprobed, ccall, burst>>
thrVars == <<thread>>
strVars == <<streams, result>>
rtrVars == <<routes, set_by, rcall>>
auxVars == <<thrVars, strVars, rtrVars>>
otherVars == <<cntVars, auxVars>>
vars == <<lruVars, limVars, otherVars>>

\* ------------------------------------------------ the heap as a value
\* The object graph and the outcome of the operation in progress.
Heap == [prev |-> node_prev, next |-> node_next, key |-> node_key,
         value |-> node_value, allocated |-> allocated, cache |-> _cache,
         exc |-> "none", ret |-> None]

Raise(h, e) == [h EXCEPT !.exc = e]

\* len(self._cache)
CacheLen(h) == Cardinality({k \in Keys : h.cache[k] # Nil})

\* Node(key, value): the next fresh object, prev = next = None
NewNode(h) == 3 + h.allocated

\* The class body: two sentinels Node(0, 0) and an empty dict.
ClassBody ==
  [prev |-> [n \in NodeIds |-> Nil], next |-> [n \in NodeIds |-> Nil],
   key |-> [n \in NodeIds |-> 0], value |-> [n \in NodeIds |-> 0],
   allocated |-> 0, cache |-> [k \in Keys |-> Nil],
   exc |-> "none", ret |-> None]

\* __init__: links the (shared) sentinels to each other.
LRUCache__init__(h) ==
  [h EXCEPT !.prev[RightNode] = LeftNode, !.next[LeftNode] = RightNode]

\* _remove without its second assignment (right.prev = left)
_remove_keeps_right_prev(h, node) ==
  IF h.exc # "none" THEN h
  ELSE IF node = Nil THEN Raise(h, "AttributeError")
  ELSE LET left == h.prev[node]
           right == h.next[node]
       IN IF left = Nil THEN Raise(h, "AttributeError")
          ELSE [h EXCEPT !.next[left] = right]

\* _remove(node):  left, right = node.prev, node.next
\*                 left.next, right.prev = right, left
\* The targets are assigned left to right; an attribute of None raises.
_remove(h, node) ==
  IF h.exc # "none" THEN h
  ELSE IF node = Nil THEN Raise(h, "AttributeError")
  ELSE LET left == h.prev[node]
           right == h.next[node]
       IN IF left = Nil THEN Raise(h, "AttributeError")
          ELSE LET h1 == [h EXCEPT !.next[left] = right]
               IN IF right = Nil THEN Raise(h1, "AttributeError")
                  ELSE [h1 EXCEPT !.prev[right] = left]

\* _insert(node):  prev = self._rightNode.prev
\*                 prev.next, self._rightNode.prev = node, node
\*                 node.next, node.prev = self._rightNode, prev
_insert(h, node) ==
  IF h.exc # "none" THEN h
  ELSE LET prev == h.prev[RightNode]
       IN IF prev = Nil THEN Raise(h, "AttributeError")
          ELSE LET h1 == [h EXCEPT !.next[prev] = node]
                   h2 == [h1 EXCEPT !.prev[RightNode] = node]
                   h3 == [h2 EXCEPT !.next[node] = RightNode]
               IN [h3 EXCEPT !.prev[node] = prev]

\* get without its membership test: self._cache[key] raises on a miss
get_without_membership_test(h, key) ==
  IF h.cache[key] = Nil THEN Raise(h, "KeyError")
  ELSE LET h1 == _remove(h, h.cache[key])
           h2 == _insert(h1, h1.cache[key])
       IN IF h2.exc # "none" THEN h2
          ELSE [h2 EXCEPT !.ret = h2.value[h2.cache[key]]]

\* get(key)
get(h, key) ==
  IF h.cache[key] = Nil THEN [h EXCEPT !.ret = MISS]
  ELSE LET h1 == _remove(h, h.cache[key])
           h2 == _insert(h1, h1.cache[key])
       IN IF h2.exc # "none" THEN h2
          ELSE [h2 EXCEPT !.ret = h2.value[h2.cache[key]]]

\* cache.pop(self._leftNode.next.key), after _remove(self._leftNode.next)
PopLeftKey(h) ==
  IF h.exc # "none" THEN h
  ELSE LET n == h.next[LeftNode]
       IN IF n = Nil THEN Raise(h, "AttributeError")
          ELSE IF h.key[n] \notin Keys \/ h.cache[h.key[n]] = Nil
               THEN Raise(h, "KeyError")
          ELSE [h EXCEPT !.cache[h.key[n]] = Nil]

\* The last three lines of put: remove the LRU value if the cache is full.
Evict(h, capacity) ==
  IF CacheLen(h) > capacity
  THEN PopLeftKey(_remove(h, h.next[LeftNode]))
  ELSE h

\* put that overwrites the value of a resident key where its node is
put_overwrite_in_place(h, key, value, capacity) ==
  IF h.cache[key] # Nil
  THEN [h EXCEPT !.value[h.cache[key]] = value]
  ELSE LET n == NewNode(h)
           h1 == [h EXCEPT !.allocated = @ + 1, !.key[n] = key,
                           !.value[n] = value, !.prev[n] = Nil,
                           !.next[n] = Nil, !.cache[key] = n]
       IN Evict(_insert(h1, n), capacity)

\* put(key, value)
put(h, key, value, capacity) ==
  IF h.cache[key] # Nil
  THEN LET n == h.cache[key]
           h1 == [h EXCEPT !.value[n] = value]
       IN _insert(_remove(h1, n), n)
  ELSE LET n == NewNode(h)
           h1 == [h EXCEPT !.allocated = @ + 1, !.key[n] = key,
                           !.value[n] = value, !.prev[n] = Nil,
                           !.next[n] = Nil, !.cache[key] = n]
       IN Evict(_insert(h1, n), capacity)

\* ---------------------------------------------------- LRUCache calls
SetHeap(h) ==
  /\ node_prev' = h.prev
  /\ node_next' = h.next
  /\ node_key' = h.key
  /\ node_value' = h.value
  /\ allocated' = h.allocated
  /\ _cache' = h.cache

\* again: the call before this one was the same get, and returned a value.
Call(op, i, k, v, h) ==
  [op |-> op, inst |-> i, key |-> k, value |-> v, ret |-> h.ret, exc |-> h.exc,
   again |-> /\ op = "get" /\ last.op = "get" /\ last.inst = i
             /\ last.key = k /\ last.exc = "none" /\ last.ret # MISS]

NoCall == [op |-> "none", inst |-> 0, key |-> 0, value |-> 0, ret |-> None,
           exc |-> "none", again |-> FALSE]

\* The calls of the usage script at the end of lru_cache.py, on LRUCache(2):
\* put(1, 1); put(2, 2); get(1); put(3, 3)
Script ==
  <<[op |-> "put", key |-> 1, value |-> 1],
    [op |-> "put", key |-> 2, value |-> 2],
    [op |-> "get", key |-> 1, value |-> 0],
    [op |-> "put", key |-> 3, value |-> 3]>>

Follow(op, k, v) ==
  IF scenario = Len(Script) THEN Len(Script) + 1
  ELSE IF scenario >= 0 /\ scenario < Len(Script)
          /\ Script[scenario + 1] = [op |-> op, key |-> k, value |-> v]
       THEN scenario + 1
       ELSE -1

\* LRUCache(c), while another instance exists
Construct(i, c) ==
  /\ _capacity[i] = 0
  /\ last.exc = "none"
  /\ SetHeap(LRUCache__init__(Heap))
  /\ _capacity' = [_capacity EXCEPT ![i] = c]
  /\ last' = Call("new", i, 0, c, Heap)
  /\ scenario' = -1
  /\ UNCHANGED <<limVars, otherVars>>

Get(i, k) ==
  /\ _capacity[i] > 0
  /\ last.exc = "none"
  /\ LET h == get(Heap, k)
     IN /\ SetHeap(h)
        /\ last' = Call("get", i, k, 0, h)
  /\ scenario' = Follow("get", k, 0)
  /\ UNCHANGED <<_capacity, limVars, otherVars>>

Put(i, k, v) ==
  /\ _capacity[i] > 0
  /\ last.exc = "none"
  /\ _cache[k] # Nil \/ allocated < MaxNodes
  /\ LET h == put(Heap, k, v, _capacity[i])
     IN /\ SetHeap(h)
        /\ last' = Call("put", i, k, v, h)
  /\ scenario' = Follow("put", k, v)
  /\ UNCHANGED <<_capacity, limVars, otherVars>>

\* The class body has run and instance 1 is constructed with capacity c.
InitLRU(c) ==
  /\ _capacity = [i \in Insts |-> IF i = 1 THEN c ELSE 0]
  /\ scenario = IF c = 2 THEN 0 ELSE -1
  /\ LET h == LRUCache__init__(ClassBody)
     IN /\ node_prev = h.prev
        /\ node_next = h.next
        /\ node_key = h.key
        /\ node_value = h.value
        /\ allocated = h.allocated
        /\ _cache = h.cache
  /\ last = NoCall

\* LeakyBucketRateLimiter(m, w), no call made yet
InitLimiter(m, w) ==
  /\ max_requests = m
  /\ window_size = w
  /\ requests = <<>>
  /\ clock = 0
  /\ calls = <<>>

\* ----------------------------------------- LeakyBucketRateLimiter
\* the purge test with < for <=
Expired_strictly_older(t, current_time, w) == t < current_time - w

\* self.requests[0] <= current_time - self.window_size
Expired(t, current_time, w) == t <= current_time - w

\* the purge with if for while: at most one entry leaves
PurgeExpired_once(reqs, current_time, w) ==
  IF reqs # <<>> /\ Expired(Head(reqs), current_time, w)
  THEN Tail(reqs)
  ELSE reqs

\* while self.requests and <the oldest is expired>: self.requests.popleft()
RECURSIVE PurgeExpired(_, _, _)
PurgeExpired(reqs, current_time, w) ==
  IF reqs # <<>> /\ Expired(Head(reqs), current_time, w)
  THEN PurgeExpired(Tail(reqs), current_time, w)
  ELSE reqs

\* is_allowed with <= for < in the limit test
is_allowed_inclusive_limit(reqs, current_time, m, w) ==
  LET kept == PurgeExpired(reqs, current_time, w)
  IN IF Len(kept) <= m
     THEN [requests |-> Append(kept, current_time), ret |-> TRUE]
     ELSE [requests |-> kept, ret |-> FALSE]

\* is_allowed testing the length the deque had before the purge
is_allowed_length_before_purge(reqs, current_time, m, w) ==
  LET kept == PurgeExpired(reqs, current_time, w)
  IN IF Len(reqs) < m
     THEN [requests |-> Append(kept, current_time), ret |-> TRUE]
     ELSE [requests |-> kept, ret |-> FALSE]

\* is_allowed, with current_time the value time.time() returned
is_allowed(reqs, current_time, m, w) ==
  LET kept == PurgeExpired(reqs, current_time, w)
  IN IF Len(kept) < m
     THEN [requests |-> Append(kept, current_time), ret |-> TRUE]
     ELSE [requests |-> kept, ret |-> FALSE]

IsAllowed(d) ==
  /\ Len(calls) < MaxCalls
  /\ LET r == is_allowed(requests, clock + d, max_requests, window_size)
     IN /\ requests' = r.requests
        /\ calls' = Append(calls, [time |-> clock + d, ret |-> r.ret])
  /\ clock' = clock + d
  /\ UNCHANGED <<max_requests, window_size, lruVars, otherVars>>

\* ------------------------- SlidingWindowCounterRateLimiter (ratelimiter.py)
\* The three attributes an instance keeps besides its two parameters.
Counter ==
  [current_window_start |-> current_window_start,
   current_window_requests |-> current_window_requests,
   last_window_requests |-> last_window_requests]

\* __init__ at time t
Counter__init__(t) ==
  [current_window_start |-> t,
   current_window_requests |-> 0,
   last_window_requests |-> 0]

\* _slide_window_if_needed without the reset branch
_slide_window_never_resets(s, current_time, w) ==
  LET time_since_window_start == current_time - s.current_window_start
  IN IF time_since_window_start >= w
     THEN [current_window_start |-> current_time,
           current_window_requests |-> 0,
           last_window_requests |-> s.current_window_requests]
     ELSE s

\* _slide_window_if_needed without self.last_window_requests = 0
_slide_window_keeps_previous(s, current_time, w) ==
  LET time_since_window_start == current_time - s.current_window_start
  IN IF time_since_window_start >= w
     THEN [current_window_start |-> current_time,
           current_window_requests |-> 0,
           last_window_requests |->
             IF time_since_window_start >= 2 * w
             THEN s.last_window_requests ELSE s.current_window_requests]
     ELSE s

_slide_window_if_needed(s, current_time, w) ==
  LET time_since_window_start == current_time - s.current_window_start
  IN IF time_since_window_start >= w
     THEN [current_window_start |-> current_time,
           current_window_requests |-> 0,
           last_window_requests |->
             IF time_since_window_start >= 2 * w
             THEN 0 ELSE s.current_window_requests]
     ELSE s

\* window_size times (1 - current_window_percentage) * last_window_requests
\* + current_window_requests + extra
ScaledEstimate(s, current_time, w, extra) ==
  (w - (current_time - s.current_window_start)) * s.last_window_requests
  + (s.current_window_requests + extra) * w

\* is_allowed counting the request it rejects
counter_is_allowed_counts_rejections(s, current_time, m, w) ==
  LET r == _slide_window_if_needed(s, current_time, w)
  IN [state |-> [r EXCEPT !.current_window_requests = @ + 1],
      ret |-> ScaledEstimate(r, current_time, w, 1) <= m * w]

\* is_allowed with an estimate that leaves out current_window_requests
counter_is_allowed_without_current(s, current_time, m, w) ==
  LET r == _slide_window_if_needed(s, current_time, w)
      q == [r EXCEPT !.current_window_requests = 0]
  IN IF ScaledEstimate(q, current_time, w, 1) <= m * w
     THEN [state |-> [r EXCEPT !.current_window_requests = @ + 1],
           ret |-> TRUE]
     ELSE [state |-> r, ret |-> FALSE]

\* is_allowed with < for <= in the limit test
counter_is_allowed_strict_limit(s, current_time, m, w) ==
  LET r == _slide_window_if_needed(s, current_time, w)
  IN IF ScaledEstimate(r, current_time, w, 1) < m * w
     THEN [state |-> [r EXCEPT !.current_window_requests = @ + 1],
           ret |-> TRUE]
     ELSE [state |-> r, ret |-> FALSE]

\* is_allowed of the counter limiter, with current_time the value
\* time.time() returned
counter_is_allowed(s, current_time, m, w) ==
  LET r == _slide_window_if_needed(s, current_time, w)
  IN IF ScaledEstimate(r, current_time, w, 1) <= m * w
     THEN [state |-> [r EXCEPT !.current_window_requests = @ + 1],
           ret |-> TRUE]
     ELSE [state |-> r, ret |-> FALSE]

\* get_current_count counting itself as a request
get_current_count_charging(s, current_time, w) ==
  LET r == _slide_window_if_needed(s, current_time, w)
  IN [state |-> [r EXCEPT !.current_window_requests = @ + 1],
      ret |-> ScaledEstimate(r, current_time, w, 0) \div w]

\* int(estimated_requests): the estimate is never negative here
get_current_count(s, current_time, w) ==
  LET r == _slide_window_if_needed(s, current_time, w)
  IN [state |-> r, ret |-> ScaledEstimate(r, current_time, w, 0) \div w]

Max(a, b) == IF a >= b THEN a ELSE b

get_remaining_requests(s, current_time, m, w) ==
  LET c == get_current_count(s, current_time, w)
  IN [state |-> c.state, ret |-> Max(0, m - c.ret)]

\* get_window_info reads the clock three times: itself (t1), then in
\* get_current_count (t2), then in get_remaining_requests (t3).
\* percentage is current_window_percentage times window_size.
get_window_info(s, t1, t2, t3, m, w) ==
  LET r == _slide_window_if_needed(s, t1, w)
      c == get_current_count(r, t2, w)
      g == get_remaining_requests(c.state, t3, m, w)
  IN [state |-> g.state,
      ret |-> [percentage |-> t1 - r.current_window_start,
               current_window_requests |-> r.current_window_requests,
               last_window_requests |-> r.last_window_requests,
               estimated_total_requests |-> c.ret,
               remaining_requests |-> g.ret]]

\* ------------------ SlidingWindowCounterRateLimiter (ratelimiter_retest.py)
retest_is_allowed(s, current_time, capacity, w) ==
  LET time_diff == current_time - s.current_window_start
      r == IF time_diff > w
           THEN [current_window_start |-> current_time,
                 current_window_requests |-> 0,
                 last_window_requests |->
                   IF time_diff > 2 * w THEN 0 ELSE s.current_window_requests]
           ELSE s
      \* window_size times estimated_num_requests, with the time_diff
      \* taken before the window moved
      scaled == r.last_window_requests * (w - time_diff)
                + (r.current_window_requests + 1) * w
  IN IF scaled <= capacity * w
     THEN [state |-> [r EXCEPT !.current_window_requests = @ + 1],
           ret |-> TRUE, time_diff |-> time_diff]
     ELSE [state |-> r, ret |-> FALSE, time_diff |-> time_diff]

\* ---------------------------------------- calls on the counter limiters
SetCounter(s) ==
  /\ current_window_start' = s.current_window_start
  /\ current_window_requests' = s.current_window_requests
  /\ last_window_requests' = s.last_window_requests

NoCounterCall ==
  [op |-> "none", time |-> 0, allowed |-> FALSE, count |-> 0, rolled |-> "no",
   retest_allowed |-> FALSE, unprobed_allowed |-> FALSE]

\* what _slide_window_if_needed does for a call at current_time
Rolled(s, current_time, w) ==
  IF current_time - s.current_window_start >= 2 * w THEN "reset"
  ELSE IF current_time - s.current_window_start >= w THEN "slide"
  ELSE "no"

CounterCall(op, t, allowed, count) ==
  [op |-> op, time |-> t, allowed |-> allowed, count |-> count,
   rolled |-> Rolled(Counter, t, window_size), retest_allowed |-> FALSE,
   unprobed_allowed |-> FALSE]

\* burst.n is -1 until both counters are reset, and again once the window
\* that began with the reset is over; the count stops above max_requests.
NoBurst == [n |-> -1, ok |-> 0]

BurstAfter(t, ret) ==
  LET rolled == Rolled(Counter, t, window_size)
      one == IF ret THEN 1 ELSE 0
  IN IF rolled = "reset" THEN [n |-> 1, ok |-> one]
     ELSE IF rolled = "slide" \/ burst.n = -1 THEN NoBurst
     ELSE IF burst.n > max_requests THEN burst
     ELSE [n |-> burst.n + 1, ok |-> burst.ok + one]

CounterIsAllowed(d) ==
  /\ clock + d <= MaxTime
  /\ LET r == counter_is_allowed(Counter, clock + d, max_requests, window_size)
     IN /\ SetCounter(r.state)
        /\ ccall' = CounterCall("is_allowed", clock + d, r.ret, 0)
        /\ burst' = BurstAfter(clock + d, r.ret)
  /\ clock' = clock + d
  /\ UNCHANGED <<max_requests, window_size, requests, calls, retest, unprobed,
                 lruVars, auxVars>>

\* the same call, at the same time, on the limiters of both files
BothIsAllowed(d) ==
  /\ clock + d <= MaxTime
  /\ LET r == counter_is_allowed(Counter, clock + d, max_requests, window_size)
         q == retest_is_allowed(retest, clock + d, max_requests, window_size)
     IN /\ SetCounter(r.state)
        /\ retest' = q.state
        /\ ccall' = [CounterCall("is_allowed", clock + d, r.ret, 0)
                       EXCEPT !.retest_allowed = q.ret]
  /\ clock' = clock + d
  /\ UNCHANGED <<max_requests, window_size, requests, calls, burst, unprobed,
                 lruVars, auxVars>>

\* the same call, at the same time, on two limiters of ratelimiter.py:
\* the one the queries are made on and the one that gets no query
TwinIsAllowed(d) ==
  /\ clock + d <= MaxTime
  /\ LET r == counter_is_allowed(Counter, clock + d, max_requests, window_size)
         u == counter_is_allowed(unprobed, clock + d, max_requests, window_size)
     IN /\ SetCounter(r.state)
        /\ unprobed' = u.state
        /\ ccall' = [CounterCall("is_allowed", clock + d, r.ret, 0)
                       EXCEPT !.unprobed_allowed = u.ret]
  /\ clock' = clock + d
  /\ UNCHANGED <<max_requests, window_size, requests, calls, burst, retest,
                 lruVars, auxVars>>

\* the same call, at the same time, on a LeakyBucketRateLimiter and on a
\* SlidingWindowCounterRateLimiter of ratelimiter.py; calls keeps both
\* results (ret of the first, cret of the second)
KindsIsAllowed(d) ==
  /\ Len(calls) < MaxCalls
  /\ LET l == is_allowed(requests, clock + d, max_requests, window_size)
         r == counter_is_allowed(Counter, clock + d, max_requests, window_size)
     IN /\ requests' = l.requests
        /\ SetCounter(r.state)
        /\ calls' = Append(calls, [time |-> clock + d, ret |-> l.ret,
                                   cret |-> r.ret])
        /\ ccall' = CounterCall("is_allowed", clock + d, r.ret, 0)
  /\ clock' = clock + d
  /\ UNCHANGED <<max_requests, window_size, burst, retest, unprobed, lruVars,
                 auxVars>>

\* a query that moves the window ends the burst
BurstAfterQuery(t) ==
  IF Rolled(Counter, t, window_size) = "no" THEN burst ELSE NoBurst

GetCurrentCount(d) ==
  /\ clock + d <= MaxTime
  /\ LET r == get_current_count(Counter, clock + d, window_size)
     IN /\ SetCounter(r.state)
        /\ ccall' = CounterCall("get_current_count", clock + d, FALSE, r.ret)
  /\ burst' = BurstAfterQuery(clock + d)
  /\ clock' = clock + d
  /\ UNCHANGED <<max_requests, window_size, requests, calls, retest, unprobed,
                 lruVars, auxVars>>

GetRemainingRequests(d) ==
  /\ clock + d <= MaxTime
  /\ LET r == get_remaining_requests(Counter, clock + d, max_requests,
                                     window_size)
     IN /\ SetCounter(r.state)
        /\ ccall' = CounterCall("get_remaining_requests", clock + d, FALSE,
                                r.ret)
  /\ burst' = BurstAfterQuery(clock + d)
  /\ clock' = clock + d
  /\ UNCHANGED <<max_requests, window_size, requests, calls, retest, unprobed,
                 lruVars, auxVars>>

\* d, e2 and e3 are the times between the three reads of the clock
GetWindowInfo(d, e2, e3) ==
  /\ clock + d + e2 + e3 <= MaxTime
  /\ LET r == get_window_info(Counter, clock + d, clock + d + e2,
                              clock + d + e2 + e3, max_requests, window_size)
     IN /\ SetCounter(r.state)
        /\ ccall' = CounterCall("get_window_info", clock + d, FALSE,
                                r.ret.remaining_requests)
  /\ burst' = IF Rolled(Counter, clock + d + e2 + e3, window_size) = "no"
              THEN burst ELSE NoBurst
  /\ clock' = clock + d + e2 + e3
  /\ UNCHANGED <<max_requests, window_size, requests, calls, retest, unprobed,
                 lruVars, auxVars>>

\* SlidingWindowCounterRateLimiter(m, w) of both files, constructed at the
\* same time, no call made yet
InitCounter ==
  /\ current_window_start = clock
  /\ current_window_requests = 0
  /\ last_window_requests = 0
  /\ retest = Counter__init__(clock)
  /\ unprobed = Counter__init__(clock)
  /\ ccall = NoCounterCall
  /\ burst = NoBurst

\* ------------------------------- threads sharing one LeakyBucketRateLimiter
\* The limiter has no lock: a thread can be preempted between any two
\* statements of is_allowed.  pc is the statement a thread is about to run:
\*   "idle"    no call in progress
\*   "while"   the test of the while loop (current_time has been read)
\*   "popleft" self.requests.popleft()
\*   "if"      the test len(self.requests) < self.max_requests
\*   "append"  self.requests.append(current_time); return True
\*   "raised"  the call ended in an exception
Threads == {1, 2}
notThrLim == <<lruVars, cntVars, strVars, rtrVars>>

IdleThread == [pc |-> "idle", now |-> 0, key |-> 0, left |-> Nil, right |-> Nil]

InitThreads == thread = [t \in Threads |-> IdleThread]

Running == {t \in Threads : thread[t].pc \notin {"idle", "raised"}}

\* current_time = time.time()
ReadTime(t, d) ==
  /\ thread[t].pc = "idle"
  /\ Len(calls) + Cardinality(Running) < MaxCalls
  /\ clock' = clock + d
  /\ thread' = [thread EXCEPT ![t].pc = "while", ![t].now = clock + d]
  /\ UNCHANGED <<max_requests, window_size, requests, calls, notThrLim>>

\* while self.requests and self.requests[0] <= current_time - self.window_size
WhileTest(t) ==
  /\ thread[t].pc = "while"
  /\ thread' = [thread EXCEPT ![t].pc =
                  IF requests # <<>>
                     /\ Expired(Head(requests), thread[t].now, window_size)
                  THEN "popleft" ELSE "if"]
  /\ UNCHANGED <<limVars, notThrLim>>

\* self.requests.popleft(): IndexError on an empty deque
PopLeft(t) ==
  /\ thread[t].pc = "popleft"
  /\ IF requests = <<>>
     THEN /\ thread' = [thread EXCEPT ![t].pc = "raised"]
          /\ UNCHANGED requests
     ELSE /\ thread' = [thread EXCEPT ![t].pc = "while"]
          /\ requests' = Tail(requests)
  /\ UNCHANGED <<max_requests, window_size, clock, calls, notThrLim>>

\* if len(self.requests) < self.max_requests: ... / return False
IfTest(t) ==
  /\ thread[t].pc = "if"
  /\ IF Len(requests) < max_requests
     THEN /\ thread' = [thread EXCEPT ![t].pc = "append"]
          /\ UNCHANGED calls
     ELSE /\ thread' = [thread EXCEPT ![t].pc = "idle"]
          /\ calls' = Append(calls, [time |-> thread[t].now, ret |-> FALSE])
  /\ UNCHANGED <<max_requests, window_size, clock, requests, notThrLim>>

\* self.requests.append(current_time); return True
AppendRequest(t) ==
  /\ thread[t].pc = "append"
  /\ requests' = Append(requests, thread[t].now)
  /\ calls' = Append(calls, [time |-> thread[t].now, ret |-> TRUE])
  /\ thread' = [thread EXCEPT ![t].pc = "idle"]
  /\ UNCHANGED <<max_requests, window_size, clock, notThrLim>>

\* ----------------------------------------- threads sharing one LRUCache
\* The cache has no lock either.  A thread running get can be preempted
\* between the statements of _remove; pc is the statement it is about to run:
\*   "read"    left, right = node.prev, node.next
\*   "unlink"  left.next, right.prev = right, left
\*   "insert"  self._insert(self._cache[key]); return self._cache[key].value
\* A put runs without being preempted.
notThrLRU == <<limVars, cntVars, strVars, rtrVars>>

\* get(key) up to its first statement: if key not in self._cache: return -1
ThreadGet(t, k) ==
  /\ thread[t].pc = "idle"
  /\ last.exc = "none"
  /\ IF _cache[k] = Nil
     THEN /\ last' = Call("get", 1, k, 0, [Heap EXCEPT !.ret = MISS])
          /\ UNCHANGED thread
     ELSE /\ thread' = [thread EXCEPT ![t].pc = "read", ![t].key = k]
          /\ last' = [NoCall EXCEPT !.op = "enter"]
  /\ scenario' = -1
  /\ UNCHANGED <<node_prev, node_next, node_key, node_value, allocated,
                 _cache, _capacity, notThrLRU>>

\* _remove, line 1: left, right = node.prev, node.next
RemoveRead(t) ==
  /\ thread[t].pc = "read"
  /\ LET node == _cache[thread[t].key]
     IN thread' = [thread EXCEPT ![t].pc = "unlink",
                                 ![t].left = node_prev[node],
                                 ![t].right = node_next[node]]
  /\ UNCHANGED <<lruVars, notThrLRU>>

\* _remove, line 2: left.next, right.prev = right, left
RemoveWrite(t) ==
  /\ thread[t].pc = "unlink"
  /\ node_next' = [node_next EXCEPT ![thread[t].left] = thread[t].right]
  /\ node_prev' = [node_prev EXCEPT ![thread[t].right] = thread[t].left]
  /\ thread' = [thread EXCEPT ![t].pc = "insert"]
  /\ UNCHANGED <<node_key, node_value, allocated, _cache, _capacity, last,
                 scenario, notThrLRU>>

\* self._insert(self._cache[key]); return self._cache[key].value
InsertAndReturn(t) ==
  /\ thread[t].pc = "insert"
  /\ LET k == thread[t].key
         h == _insert(Heap, _cache[k])
         r == [h EXCEPT !.ret = h.value[h.cache[k]]]
     IN /\ SetHeap(r)
        /\ last' = [Call("get", 1, k, 0, r) EXCEPT !.again = FALSE]
  /\ thread' = [thread EXCEPT ![t] = IdleThread]
  /\ UNCHANGED <<_capacity, scenario, notThrLRU>>

\* put(key, value) by a thread
ThreadPut(t, k, v) ==
  /\ thread[t].pc = "idle"
  /\ Put(1, k, v)
  /\ UNCHANGED thread

\* ------------------------------------------------ concurrent_streams.py
\* MAX_TIME = 100001, one more than the largest timestamp
MAX_TIME == MaxStreamTime + 1

\* the loop over streams, with the decrement put one place later
RECURSIVE MarkStreams_end_included(_, _)
MarkStreams_end_included(diff, strs) ==
  IF strs = <<>> THEN diff
  ELSE LET start == Head(strs)[1]
           end == Head(strs)[2]
           up == [diff EXCEPT ![start] = @ + 1]
       IN MarkStreams_end_included(
            IF end + 1 < MAX_TIME THEN [up EXCEPT ![end + 1] = @ - 1] ELSE up,
            Tail(strs))

\* for user_id, start, end in streams: diff[start] += 1; if end < MAX_TIME:
\* diff[end] -= 1.  A stream is <<start, end>>: user_id is never read.
RECURSIVE MarkStreams(_, _)
MarkStreams(diff, strs) ==
  IF strs = <<>> THEN diff
  ELSE LET start == Head(strs)[1]
           end == Head(strs)[2]
           up == [diff EXCEPT ![start] = @ + 1]
       IN MarkStreams(
            IF end < MAX_TIME THEN [up EXCEPT ![end] = @ - 1] ELSE up,
            Tail(strs))

\* for t in range(MAX_TIME): current_streams += diff[t]; max_concurrent =
\* max(max_concurrent, current_streams)
RECURSIVE ScanStreams(_, _, _, _)
ScanStreams(diff, t, current_streams, max_concurrent) ==
  IF t >= MAX_TIME THEN max_concurrent
  ELSE ScanStreams(diff, t + 1, current_streams + diff[t],
                   Max(max_concurrent, current_streams + diff[t]))

max_concurrent_streams(strs) ==
  IF strs = <<>> THEN 0
  ELSE ScanStreams(MarkStreams([t \in 0..(MAX_TIME - 1) |-> 0], strs), 0, 0, 0)

\* the caller puts one more stream in the list it will pass
AddStream(start, end) ==
  /\ result = None
  /\ Len(streams) < MaxStreams
  /\ streams' = Append(streams, <<start, end>>)
  /\ UNCHANGED <<result, lruVars, limVars, cntVars, thrVars, rtrVars>>

Compute ==
  /\ result = None
  /\ result' = max_concurrent_streams(streams)
  /\ UNCHANGED <<streams, lruVars, limVars, cntVars, thrVars, rtrVars>>

InitStreams ==
  /\ streams = <<>>
  /\ result = None

\* ------------------------------------------------------- xero2/route.py
\* A route is the sequence of its characters.
Chars(str) ==
  CASE str = "" -> <<>>
    [] str = "badroute" -> <<"b", "a", "d", "r", "o", "u", "t", "e">>
    [] str = "/foo" -> <<"/", "f", "o", "o">>
    [] str = "/nonexistent" -> <<"/", "n", "o", "n", "e", "x", "i", "s", "t",
                                 "e", "n", "t">>

RouteNames == {"", "badroute", "/foo", "/nonexistent"}
Responses == {"bar", "baz"}

validate_route(route) ==
  IF Chars(route) = <<>> THEN FALSE
  ELSE IF Chars(route)[1] # "/" THEN FALSE
  ELSE TRUE

\* routes = {} in the class body: one dict for every Router
EmptyDict == [r \in {} |-> ""]

Router_set(rts, route, response) ==
  IF ~validate_route(route)
  THEN [routes |-> rts, ret |-> "", exc |-> "Route is invalid"]
  ELSE [routes |-> [r \in (DOMAIN rts) \cup {route} |->
                      IF r = route THEN response ELSE rts[r]],
        ret |-> "", exc |-> "none"]

\* self.routes.get(route, False) == False: no stored response is a
\* string equal to False, so the test is whether the route is a key
Router_get(rts, route) ==
  IF route \notin DOMAIN rts
  THEN [routes |-> rts, ret |-> "", exc |-> "Route not found"]
  ELSE [routes |-> rts, ret |-> rts[route], exc |-> "none"]

NoRouterCall ==
  [op |-> "none", inst |-> 0, route |-> "", response |-> "", ret |-> "",
   exc |-> "none"]

RouterSet(i, route, response) ==
  /\ LET r == Router_set(routes, route, response)
     IN /\ routes' = r.routes
        /\ rcall' = [op |-> "set", inst |-> i, route |-> route,
                     response |-> response, ret |-> r.ret, exc |-> r.exc]
        /\ set_by' = IF r.exc = "none"
                     THEN [set_by EXCEPT ![i] = @ \cup {route}]
                     ELSE set_by
  /\ UNCHANGED <<lruVars, limVars, cntVars, thrVars, strVars>>

RouterGet(i, route) ==
  /\ LET r == Router_get(routes, route)
     IN /\ routes' = r.routes
        /\ rcall' = [op |-> "get", inst |-> i, route |-> route,
                     response |-> "", ret |-> r.ret, exc |-> r.exc]
  /\ UNCHANGED <<set_by, lruVars, limVars, cntVars, thrVars, strVars>>

\* the class body has run and the Router instances are constructed
InitRouter ==
  /\ routes = EmptyDict
  /\ set_by = [i \in Insts |-> {}]
  /\ rcall = NoRouterCall

\* what the specifications that do not use a component start it as
InitOther ==
  /\ InitCounter
  /\ InitThreads
  /\ InitStreams
  /\ InitRouter

\* ------------------------------------------------------ specifications
\* One LRUCache, any capacity >= 1, any calls.
Init ==
  /\ \E c \in 1..MaxCap : InitLRU(c)
  /\ InitLimiter(1, 1)
  /\ InitOther

Next ==
  \/ \E k \in Keys : Get(1, k)
  \/ \E k \in Keys : \E v \in ValuesFor(k) : Put(1, k, v)

Spec == Init /\ [][Next]_vars

\* One LRUCache, put calls only.
NextPut == \E k \in Keys : \E v \in ValuesFor(k) : Put(1, k, v)

SpecPut == Init /\ [][NextPut]_vars

\* Two LRUCache instances: instance 2 is constructed while instance 1 is in
\* use, and is only ever read (no key is put through it).
NextTwo ==
  \/ \E c \in 1..MaxCap : Construct(2, c)
  \/ \E i \in Insts, k \in Keys : Get(i, k)
  \/ \E k \in Keys : \E v \in ValuesFor(k) : Put(1, k, v)

SpecTwo == Init /\ [][NextTwo]_vars

\* One LeakyBucketRateLimiter under a non-decreasing clock.
InitLim ==
  /\ InitLRU(1)
  /\ \E m \in 1..MaxRequests, w \in WindowSizes : InitLimiter(m, w)
  /\ InitOther

NextLim == \E d \in Steps(window_size) : IsAllowed(d)

SpecLim == InitLim /\ [][NextLim]_vars

\* One LeakyBucketRateLimiter constructed with any arguments, the
\* non-positive ones included: __init__ stores what it is given.
AnyLimits == -1..MaxRequests
AnyWindows == {-1, 0, 1, 3}
AnySteps == {0, 1, 3}

InitAny ==
  /\ InitLRU(1)
  /\ \E m \in AnyLimits, w \in AnyWindows : InitLimiter(m, w)
  /\ InitOther

NextAny == \E d \in AnySteps : IsAllowed(d)

SpecAny == InitAny /\ [][NextAny]_vars

\* Two threads calling is_allowed on one LeakyBucketRateLimiter.
ThreadWindows == {1, 3}
ThreadSteps(w) == {0, 1, w}

InitThr ==
  /\ InitLRU(1)
  /\ \E m \in 1..MaxRequests, w \in ThreadWindows : InitLimiter(m, w)
  /\ InitOther

NextThr ==
  \/ \E t \in Threads, d \in ThreadSteps(window_size) : ReadTime(t, d)
  \/ \E t \in Threads : WhileTest(t)
  \/ \E t \in Threads : PopLeft(t)
  \/ \E t \in Threads : IfTest(t)
  \/ \E t \in Threads : AppendRequest(t)

SpecThr == InitThr /\ [][NextThr]_vars

\* Two threads calling get and put on one LRUCache that never evicts: its
\* capacity is the number of keys.
InitThrLRU ==
  /\ InitLRU(Cardinality(Keys))
  /\ InitLimiter(1, 1)
  /\ InitOther

ThreadKeys == {1, 2}

NextThrLRU ==
  \/ \E t \in Threads, k \in ThreadKeys : ThreadGet(t, k)
  \/ \E t \in Threads : RemoveRead(t)
  \/ \E t \in Threads : RemoveWrite(t)
  \/ \E t \in Threads : InsertAndReturn(t)
  \/ \E t \in Threads, k \in ThreadKeys : ThreadPut(t, k, k)

SpecThrLRU == InitThrLRU /\ [][NextThrLRU]_vars

\* max_concurrent_streams applied to any list of streams.
InitStr ==
  /\ InitLRU(1)
  /\ InitLimiter(1, 1)
  /\ InitOther

NextStr ==
  \/ \E start \in 0..MaxStreamTime, end \in 0..MaxStreamTime :
       start <= end /\ AddStream(start, end)
  \/ Compute

SpecStr == InitStr /\ [][NextStr]_vars

\* Two Router instances, any calls.
InitRtr ==
  /\ InitLRU(1)
  /\ InitLimiter(1, 1)
  /\ InitOther

NextRouter ==
  \/ \E i \in Insts, route \in RouteNames, response \in Responses :
       RouterSet(i, route, response)
  \/ \E i \in Insts, route \in RouteNames : RouterGet(i, route)

SpecRouter == InitRtr /\ [][NextRouter]_vars

\* One SlidingWindowCounterRateLimiter of ratelimiter.py under a
\* non-decreasing clock: is_allowed and the three queries.
CounterLimits == (1..MaxRequests) \cup {10}
CounterSteps(w) == {0, 1, w - 1, w, 2 * w - 1, 2 * w}
Reads == {0, 1}

InitCnt ==
  /\ InitLRU(1)
  /\ \E m \in CounterLimits, w \in CounterWindows : InitLimiter(m, w)
  /\ InitOther

NextCnt ==
  \/ \E d \in CounterSteps(window_size) : CounterIsAllowed(d)
  \/ \E d \in CounterSteps(window_size) : GetCurrentCount(d)
  \/ \E d \in CounterSteps(window_size) : GetRemainingRequests(d)
  \/ \E d \in CounterSteps(window_size), e2 \in Reads, e3 \in Reads :
       GetWindowInfo(d, e2, e3)

SpecCnt == InitCnt /\ [][NextCnt]_vars

\* Two limiters of ratelimiter.py constructed together and given the same
\* is_allowed calls; the queries are made on one of them only.
NextProbe ==
  \/ \E d \in CounterSteps(window_size) : TwinIsAllowed(d)
  \/ \E d \in CounterSteps(window_size) : GetCurrentCount(d)
  \/ \E d \in CounterSteps(window_size) : GetRemainingRequests(d)
  \/ \E d \in CounterSteps(window_size), e2 \in Reads, e3 \in Reads :
       GetWindowInfo(d, e2, e3)

InitProbe ==
  /\ InitLRU(1)
  /\ \E m \in 1..MaxRequests, w \in CounterWindows : InitLimiter(m, w)
  /\ InitOther

SpecProbe == InitProbe /\ [][NextProbe]_vars

\* A LeakyBucketRateLimiter and a SlidingWindowCounterRateLimiter with the
\* same arguments, constructed together and called together.
KindSteps(w) == {0, 1, w - 1, w, 2 * w, 3 * w}

InitKinds ==
  /\ InitLRU(1)
  /\ \E m \in 1..MaxRequests, w \in CounterWindows : InitLimiter(m, w)
  /\ InitOther

NextKinds == \E d \in KindSteps(window_size) : KindsIsAllowed(d)

SpecKinds == InitKinds /\ [][NextKinds]_vars

\* The counter limiters of ratelimiter.py and of ratelimiter_retest.py,
\* constructed together and called together.
InitBoth ==
  /\ InitLRU(1)
  /\ \E m \in 1..MaxRequests, w \in CounterWindows : InitLimiter(m, w)
  /\ InitOther

NextBoth == \E d \in CounterSteps(window_size) : BothIsAllowed(d)

SpecBoth == InitBoth /\ [][NextBoth]_vars

\* ------------------------------------------------ reading the list
\* The nodes met from node n by following the reference field f (node_next
\* or node_prev) until the sentinel `stop`, None or `fuel` nodes.
RECURSIVE Walk(_, _, _, _)
Walk(f, n, stop, fuel) ==
  IF n = Nil \/ n = stop \/ fuel = 0 THEN <<>>
  ELSE <<n>> \o Walk(f, f[n], stop, fuel - 1)

\* Where that walk ends: `stop` when the list is well formed.
RECURSIVE WalkEnd(_, _, _, _)
WalkEnd(f, n, stop, fuel) ==
  IF n = Nil \/ n = stop \/ fuel = 0 THEN n
  ELSE WalkEnd(f, f[n], stop, fuel - 1)

Forward == Walk(node_next, node_next[LeftNode], RightNode, MaxNodes + 1)
ForwardEnd == WalkEnd(node_next, node_next[LeftNode], RightNode, MaxNodes + 1)
Backward == Walk(node_prev, node_prev[RightNode], LeftNode, MaxNodes + 1)
BackwardEnd == WalkEnd(node_prev, node_prev[RightNode], LeftNode, MaxNodes + 1)

Reverse(q) == [i \in 1..Len(q) |-> q[Len(q) + 1 - i]]
Resident == {k \in Keys : _cache[k] # Nil}
HeapVars == <<node_prev, node_next, node_key, node_value, _cache>>

\* ------------------------------------------------------------- claims

\* C1: after each put the number of resident keys (the size of _cache) does
\* not exceed the capacity, for every sequence of put calls.
C1_CapacityNeverExceeded ==
  last.op = "put" => Cardinality(Resident) <= _capacity[last.inst]

\* C2: on LRUCache(2), after put(1,1); put(2,2); get(1) -> 1; put(3,3) the
\* evicted key is 2: get(2) misses, get(3) returns 3 and get(1) returns 1.
C2_ScriptEvictsLeastRecent ==
  /\ (scenario = 3 => last.ret = 1)
  /\ (scenario = Len(Script) + 1 /\ last.op = "get" =>
        /\ (last.key = 2 => last.ret = MISS)
        /\ (last.key = 3 => last.ret = 3)
        /\ (last.key = 1 => last.ret = 1))

\* C3: put(k, v) immediately followed by get(k) returns v.
C3_PutThenGet ==
  [][(/\ last.op = "put" /\ last.exc = "none"
      /\ last'.op = "get" /\ last'.key = last.key /\ last'.inst = last.inst)
     => last'.ret = last.value]_vars

\* C4: after every get or put the list from the least-recent sentinel to the
\* most-recent one holds exactly the keys of the index, each once, and the
\* backward traversal visits the same nodes in the opposite order.
C4_IndexMatchesList ==
  last.op \in {"get", "put"} =>
    /\ ForwardEnd = RightNode
    /\ BackwardEnd = LeftNode
    /\ Backward = Reverse(Forward)
    /\ Len(Forward) = Cardinality(Resident)
    /\ {node_key[Forward[i]] : i \in 1..Len(Forward)} = Resident
    /\ \A i \in 1..Len(Forward) : _cache[node_key[Forward[i]]] = Forward[i]

\* C5: get(k) for a key that is not in the index returns -1, raises nothing,
\* and leaves the index, every node's value and the links of the list as
\* they were.
C5_MissChangesNothing ==
  [][(last'.op = "get" /\ _cache[last'.key] = Nil)
     => (/\ last'.ret = MISS
         /\ last'.exc = "none"
         /\ UNCHANGED HeapVars)]_vars

C5_Witness ==
  /\ last.op = "get"
  /\ last.ret = MISS
  /\ Cardinality(Resident) >= 1
  /\ Len(Forward) >= 1

\* C6: get(k) on a resident key, repeated, leaves the cache as the first
\* get(k) left it (same index, values and links) and returns the same value.
C6_RepeatedGetIsIdempotent ==
  [][(/\ last.op = "get" /\ last.exc = "none" /\ last.ret # MISS
      /\ last'.op = "get" /\ last'.key = last.key /\ last'.inst = last.inst)
     => (/\ last'.ret = last.ret
         /\ last'.exc = "none"
         /\ UNCHANGED HeapVars)]_vars

C6_Witness ==
  /\ last.again
  /\ last.exc = "none"
  /\ Cardinality(Resident) >= 2

\* C7: a get on one LRUCache instance is not affected by the calls made on
\* another: a key put only through instance 1 is a miss on instance 2.
C7_InstancesAreIsolated ==
  (last.op = "get" /\ last.inst = 2) => last.ret = MISS

\* ----------------------------------------------- reading the calls
Times(q) == [i \in 1..Len(q) |-> q[i].time]
Results(q) == [i \in 1..Len(q) |-> q[i].ret]
InWindowAt(c, now) == c.ret /\ c.time > now - window_size /\ c.time <= now
StillCounted(c) == InWindowAt(c, clock)
\* admitted calls among the first n with a timestamp in (now - window_size, now]
AdmittedIn(n, now) == {j \in 1..n : InWindowAt(calls[j], now)}

\* C8: an admitted request stops counting exactly when it is window_size
\* old: after every call the log holds the timestamps of the admitted
\* requests younger than window_size, in order.  With max_requests = 1 and
\* window_size = 1000, calls at 0, 999, 1000 return true, false, true.
C8_ExactWindowBoundary ==
  /\ calls # <<>> => requests = Times(SelectSeq(calls, StillCounted))
  /\ (/\ max_requests = 1 /\ window_size = 1000
      /\ Times(calls) = <<0, 999, 1000>>)
     => Results(calls) = <<TRUE, FALSE, TRUE>>

C8_Witness ==
  /\ max_requests = 1
  /\ window_size = 1000
  /\ Times(calls) = <<0, 999, 1000>>

\* C9: a call at time now is admitted iff fewer than max_requests earlier
\* admitted requests have a timestamp in (now - window_size, now]; the log
\* never holds more than max_requests entries; no window of length
\* window_size ending at a call holds more than max_requests admitted ones.
C9_AdmitIffBelowLimit ==
  /\ \A i \in 1..Len(calls) :
       calls[i].ret <=>
         Cardinality(AdmittedIn(i - 1, calls[i].time)) < max_requests
  /\ Len(requests) <= max_requests
  /\ \A i \in 1..Len(calls) :
       Cardinality(AdmittedIn(Len(calls), calls[i].time)) <= max_requests

C9_Witness ==
  /\ max_requests = 2
  /\ \E i, j \in 1..Len(calls) :
       /\ i < j
       /\ ~calls[i].ret
       /\ calls[j].ret
       /\ Len(requests) = 2

\* C10: a call to is_allowed that returns false leaves the request log as
\* it was before the call.
C10_RejectionKeepsLog ==
  [][(Len(calls') = Len(calls) + 1 /\ ~calls'[Len(calls')].ret)
     => requests' = requests]_vars

C10_Witness ==
  /\ calls # <<>>
  /\ ~calls[Len(calls)].ret
  /\ Len(calls) >= 3
  /\ requests # <<>>

\* ----------------------------------------------- the counter limiter
\* C11 (as stated): an is_allowed call of the counter limiter that returns
\* false leaves current_window_start, current_window_requests and
\* last_window_requests as they were before the call.
C11_RejectionKeepsCounters ==
  [][(ccall'.op = "is_allowed" /\ ~ccall'.allowed)
     => UNCHANGED <<current_window_start, current_window_requests,
                    last_window_requests>>]_vars

\* C11 (amended): an is_allowed call that returns false changes the three
\* attributes only as the window roll does: with less than window_size
\* elapsed they stay as they were; otherwise current_window_start is the
\* time of the call, current_window_requests is 0 and last_window_requests
\* is the former current_window_requests, or 0 from two window sizes on.
C11_RejectionOnlyRolls ==
  [][(ccall'.op = "is_allowed" /\ ~ccall'.allowed)
     => LET elapsed == clock' - current_window_start
        IN IF elapsed < window_size
           THEN UNCHANGED <<current_window_start, current_window_requests,
                            last_window_requests>>
           ELSE /\ current_window_start' = clock'
                /\ current_window_requests' = 0
                /\ last_window_requests' =
                     IF elapsed >= 2 * window_size
                     THEN 0 ELSE current_window_requests]_vars

\* a rejected call that moved the window
C11_Witness ==
  /\ ccall.op = "is_allowed"
  /\ ~ccall.allowed
  /\ ccall.rolled = "slide"
  /\ last_window_requests > 0

\* C12: a call that arrives two window sizes or more after
\* current_window_start finds both counters reset to 0 before it is
\* decided, and from that call on the first max_requests calls made before
\* the new window ends are all admitted.
C12_BurstAfterReset ==
  [][/\ (ccall'.op = "is_allowed"
         /\ clock' - current_window_start >= 2 * window_size)
        => /\ last_window_requests' = 0
           /\ current_window_start' = clock'
           /\ current_window_requests' = 1
           /\ ccall'.allowed
     /\ (burst'.n >= 1 /\ burst'.n <= max_requests)
        => burst'.ok = burst'.n]_vars

\* max_requests = 10, window_size = 1: ten calls after a reset, all admitted
C12_Witness ==
  /\ max_requests = 10
  /\ window_size = 1
  /\ burst.n = 10
  /\ burst.ok = 10
  /\ ccall.op = "is_allowed"

\* What the roll is stated to do to a limiter called at time now, given
\* its attributes before (pre) and after (post) the call.
RollsAsStated(pre, post, now, w) ==
  LET elapsed == now - pre.current_window_start
  IN IF elapsed >= 2 * w
     THEN /\ post.current_window_start = now
          /\ post.last_window_requests = 0
          /\ post.current_window_requests \in {0, 1}
     ELSE IF elapsed >= w
     THEN /\ post.current_window_start = now
          /\ post.last_window_requests = pre.current_window_requests
          /\ post.current_window_requests \in {0, 1}
     ELSE /\ post.current_window_start = pre.current_window_start
          /\ post.last_window_requests = pre.last_window_requests
          /\ post.current_window_requests - pre.current_window_requests
               \in {0, 1}

\* C13: in both implementations of the counter limiter a call resets both
\* counters from two window sizes elapsed on, moves the current count to
\* the previous one from one window size on (the boundary included), and
\* otherwise leaves the window alone.
C13_RollInEveryImplementation ==
  [][ccall'.op = "is_allowed"
     => /\ RollsAsStated(Counter, Counter', clock', window_size)
        /\ RollsAsStated(retest, retest', clock', window_size)]_vars

\* C14: with previous and current the counters after the roll and the
\* elapsed fraction taken from the window start after the roll, is_allowed
\* returns true and adds exactly 1 to the current count if and only if
\* previous * (1 - fraction) + current + 1 <= max_requests; otherwise it
\* returns false and the admission changes neither counter.
C14_AdmitIffEstimateFits ==
  [][ccall'.op = "is_allowed"
     => LET elapsed == clock' - current_window_start
            start == IF elapsed >= window_size
                     THEN clock' ELSE current_window_start
            previous == IF elapsed >= 2 * window_size THEN 0
                        ELSE IF elapsed >= window_size
                             THEN current_window_requests
                             ELSE last_window_requests
            current == IF elapsed >= window_size
                       THEN 0 ELSE current_window_requests
            \* both sides of the comparison times window_size
            fits == previous * (window_size - (clock' - start))
                    + (current + 1) * window_size
                    <= max_requests * window_size
        IN /\ ccall'.allowed = fits
           /\ last_window_requests' = previous
           /\ current_window_requests' = IF fits THEN current + 1
                                         ELSE current]_vars

\* a call admitted only because the previous window is weighted down
C14_Witness ==
  /\ ccall.op = "is_allowed"
  /\ ccall.allowed
  /\ clock > current_window_start
  /\ last_window_requests + current_window_requests > max_requests

Queries == {"get_current_count", "get_remaining_requests", "get_window_info"}

\* C15: get_current_count, get_remaining_requests and get_window_info never
\* increase current_window_requests, and a query made less than window_size
\* after current_window_start leaves the three attributes as they were.
C15_QueriesDoNotCharge ==
  [][ccall'.op \in Queries
     => /\ current_window_requests' <= current_window_requests
        /\ clock' - current_window_start < window_size
           => UNCHANGED <<current_window_start, current_window_requests,
                          last_window_requests>>]_vars

\* get_window_info called inside a window that holds requests
C15_Witness ==
  /\ ccall.op = "get_window_info"
  /\ ccall.rolled = "no"
  /\ current_window_requests > 0
  /\ last_window_requests > 0
  /\ clock > current_window_start

\* ------------------------------------------------------- construction
\* C16: constructing an LRUCache with capacity <= 0, or a limiter with
\* max_requests <= 0 or window_size <= 0, ends in an error.  Stated for the
\* limiter: none with a non-positive argument ever answers a call.
C16_InvalidConstructionFails ==
  (max_requests <= 0 \/ window_size <= 0) => calls = <<>>

\* --------------------------------------------------------- concurrency
\* C17: with several threads calling is_allowed on one limiter, the calls
\* act as if they ran one after the other, so the log never holds more
\* than max_requests timestamps.
C17_ThreadsNeverOverAdmit == Len(requests) <= max_requests

\* C18: with several threads calling get and put on one LRUCache, whenever
\* no call is in progress the list from the least-recent sentinel to the
\* most-recent one holds exactly the keys of the index, each once, and
\* reads the same backward.
C18_ThreadsKeepIndexAndList ==
  (\A t \in Threads : thread[t].pc = "idle")
  => /\ ForwardEnd = RightNode
     /\ BackwardEnd = LeftNode
     /\ Backward = Reverse(Forward)
     /\ {node_key[Forward[i]] : i \in 1..Len(Forward)} = Resident
     /\ Len(Forward) = Cardinality(Resident)

\* ------------------------------------------------- concurrent streams
\* the streams running at time t: start <= t < end
RunningAt(t) ==
  {i \in DOMAIN streams : streams[i][1] <= t /\ t < streams[i][2]}

\* C19: for every list of streams with 0 <= start <= end <= the largest
\* timestamp, max_concurrent_streams returns the largest number of streams
\* running at one time t, a stream running when start <= t < end: 0 for
\* the empty list and for a stream of no duration, 1 for two streams of
\* which one starts when the other ends.
C19_MaxConcurrentStreams ==
  result # None
  => /\ \A t \in 0..MaxStreamTime : Cardinality(RunningAt(t)) <= result
     /\ \E t \in 0..MaxStreamTime : Cardinality(RunningAt(t)) = result
     /\ streams = <<>> => result = 0
     /\ (Len(streams) = 1 /\ streams[1][1] = streams[1][2]) => result = 0
     /\ (Len(streams) = 2 /\ streams[1][1] < streams[1][2]
         /\ streams[1][2] = streams[2][1] /\ streams[2][1] < streams[2][2])
        => result = 1

\* two streams that touch, one of them ending at the largest timestamp
C19_Witness ==
  /\ result = 1
  /\ Len(streams) = 2
  /\ streams[1][2] = streams[2][1]
  /\ streams[1][1] < streams[1][2]
  /\ streams[2][2] = MaxStreamTime

\* ------------------------------------------------------------- Router
\* C20: get(r) raises "Route not found" for every route never set through
\* that Router instance; set(r, v) with r empty or not starting with "/"
\* raises "Route is invalid" and stores nothing; after set(r, v) with a
\* valid r the response stored for r, which get(r) returns, is v.
C20_RouterGetAndSet ==
  /\ (rcall.op = "get" /\ rcall.route \notin set_by[rcall.inst])
     => rcall.exc = "Route not found"
  /\ (rcall.op = "set"
      /\ (rcall.route = "" \/ Head(Chars(rcall.route)) # "/"))
     => /\ rcall.exc = "Route is invalid"
        /\ rcall.route \notin DOMAIN routes
  /\ (rcall.op = "set" /\ rcall.route # ""
      /\ Head(Chars(rcall.route)) = "/")
     => /\ rcall.exc = "none"
        /\ routes[rcall.route] = rcall.response
  /\ (rcall.op = "get" /\ rcall.exc = "none")
     => rcall.ret = routes[rcall.route]

\* ------------------------------------------------ eviction and overwrite
\* the nodes of q that the index holds, other than node n, in the order
\* of q
RECURSIVE Others(_, _)
Others(q, n) ==
  IF q = <<>> THEN <<>>
  ELSE IF Head(q) = n \/ Head(q) \notin {_cache[k] : k \in Keys}
       THEN Others(Tail(q), n)
       ELSE <<Head(q)>> \o Others(Tail(q), n)

\* C21: when a put makes the size of the index exceed the capacity,
\* exactly one entry is evicted, the same one in both structures: the node
\* unlinked from the list is the one next to the least-recent sentinel, and
\* the key removed from the index is the key of that node.
C21_EvictsOneEntryFromBoth ==
  [][(/\ last'.op = "put"
      /\ _cache[last'.key] = Nil
      /\ Cardinality(Resident) + 1 > _capacity[last'.inst])
     => LET victim == node_next[LeftNode]
        IN /\ last'.exc = "none"
           /\ \A i \in 1..Len(Forward') : Forward'[i] # victim
           /\ Resident' = (Resident \cup {last'.key}) \ {node_key[victim]}]_vars

C26_NoCallRaises ==
  /\ last.exc = "none"
  /\ last.op = "put" => Cardinality(Resident) <= _capacity[last.inst]

\* ------------------------------------------------ the log of requests
\* C23: under a non-decreasing clock, after every is_allowed call at time
\* now the log is non-decreasing from front to back and each of its
\* timestamps t satisfies t > now - window_size; a call changes the log
\* only by removing entries from its front and by appending now at its back.
C23_LogIsSortedAndFresh ==
  [][Len(calls') = Len(calls) + 1
     => /\ \A i \in 1..(Len(requests') - 1) : requests'[i] <= requests'[i + 1]
        /\ \A i \in 1..Len(requests') : requests'[i] > clock' - window_size
        /\ \E k \in 0..Len(requests) :
             LET kept == SubSeq(requests, k + 1, Len(requests))
             IN requests' = kept \/ requests' = Append(kept, clock')]_vars

\* two timestamps in the log, after an older admitted request has left it
C23_Witness ==
  /\ Len(requests) = 2
  /\ requests[1] < requests[2]
  /\ requests[2] = clock
  /\ \E i \in 1..Len(calls) :
       calls[i].ret /\ calls[i].time <= clock - window_size

\* ------------------------------------------------ the window's start
\* C24: in every reachable state of the counter limiter
\* current_window_start differs from its initial value (0: the limiter is
\* constructed at time 0) by a whole multiple of window_size.
C24_WindowStartOnMultiples ==
  (current_window_start - 0) % window_size = 0

\* ------------------------------------------- the two counter limiters
\* C25: in both implementations of the counter limiter the elapsed time
\* the estimate uses is taken from the window start as it is after the
\* roll, so it is at least 0 and less than window_size and the weight of
\* the previous count is never negative; the limiter of
\* ratelimiter_retest.py therefore decides every call as the limiter of
\* ratelimiter.py does.
C25_RetestDecidesAlike ==
  [][ccall'.op = "is_allowed"
     => LET used == retest_is_allowed(retest, clock', max_requests,
                                      window_size).time_diff
        IN /\ clock' - current_window_start' >= 0
           /\ clock' - current_window_start' < window_size
           /\ used = clock' - retest'.current_window_start
           /\ used >= 0
           /\ used < window_size
           /\ ccall'.retest_allowed = ccall'.allowed]_vars

\* ------------------------------------------------------------ queries
\* C27: queries made between the is_allowed calls change the result of no
\* later is_allowed call: the limiter that is queried decides each call as
\* the limiter that gets the same is_allowed calls and no query.
C27_QueriesDoNotChangeDecisions ==
  ccall.op = "is_allowed" => ccall.allowed = ccall.unprobed_allowed

\* C28: get_remaining_requests returns a value in 0..max_requests, and an
\* is_allowed call made at the same time, with no call in between, returns
\* true when that value is 1 or more and false when it is 0.
C28_RemainingAgreesWithIsAllowed ==
  [][(/\ ccall.op = "get_remaining_requests"
      /\ ccall'.op = "is_allowed"
      /\ ccall'.time = ccall.time)
     => /\ ccall.count \in 0..max_requests
        /\ ccall'.allowed = (ccall.count >= 1)]_vars

\* ------------------------------------------------- quiet windows, bursts
\* the calls before call i that the exact limiter (kind "ret") or the
\* counter limiter (kind "cret") admitted less than span before call i
AdmittedWithin(i, span, kind) ==
  {j \in 1..(i - 1) :
     /\ IF kind = "ret" THEN calls[j].ret ELSE calls[j].cret
     /\ calls[j].time > calls[i].time - span}

\* C29 (as stated): on both limiters, with max_requests >= 1 and a
\* non-decreasing clock, an is_allowed call at time now returns true when no
\* request was admitted in (now - window_size, now].
C29_NoFalseRejection ==
  \A i \in 1..Len(calls) :
    /\ AdmittedWithin(i, window_size, "ret") = {} => calls[i].ret
    /\ AdmittedWithin(i, window_size, "cret") = {} => calls[i].cret

\* C29 (amended): the exact limiter admits a call at time now when it
\* admitted no request in (now - window_size, now]; the counter limiter
\* admits it when it admitted no request in (now - 3 * window_size, now].
C29_QuietWindowAdmits ==
  \A i \in 1..Len(calls) :
    /\ AdmittedWithin(i, window_size, "ret") = {} => calls[i].ret
    /\ AdmittedWithin(i, 3 * window_size, "cret") = {} => calls[i].cret

\* both limiters admit a call three windows after the last admitted one,
\* the counter limiter having rejected a call in between
C29_Witness ==
  /\ Len(calls) >= 3
  /\ calls[1].ret /\ calls[1].cret
  /\ ~calls[2].cret
  /\ AdmittedWithin(Len(calls), 3 * window_size, "cret") = {}
  /\ calls[Len(calls)].cret
  /\ calls[Len(calls)].ret

\* the requests the counter limiter admitted at a time in [t, t + window_size]
AdmittedFrom(t) ==
  {j \in 1..Len(calls) :
     calls[j].cret /\ calls[j].time >= t /\ calls[j].time <= t + window_size}

\* C30: on the counter limiter under a non-decreasing clock both counters
\* stay within 0..max_requests, and no interval of length window_size holds
\* more than 2 * max_requests admitted requests.
C30_BoundedOvershoot ==
  /\ current_window_requests \in 0..max_requests
  /\ last_window_requests \in 0..max_requests
  /\ \A i \in 1..Len(calls) :
       Cardinality(AdmittedFrom(calls[i].time)) <= 2 * max_requests

\* more than max_requests requests admitted within one window_size
C30_Witness ==
  /\ \E i \in 1..Len(calls) :
       Cardinality(AdmittedFrom(calls[i].time)) > max_requests
  /\ last_window_requests = max_requests

====
